---- MODULE Spec2Model ----
(***************************************************************************)
(* Model of the logger facade of yyberi/logger: the registry of root      *)
(* loggers (Logger.getInstance), the derivation of child loggers          *)
(* (Logger.child), the cascade of a level change (Logger.setLogLevel) and  *)
(* the five forwarding log methods.                                        *)
(*                                                                         *)
(* The repository holds two builds of the class:                           *)
(*   "keyed"  - unnamed/part_000: static instances: Record<string,Logger>  *)
(*   "single" - src/index.ts:     static instance?: Logger                 *)
(* A behaviour runs one of them; `variant` says which.                     *)
(*                                                                         *)
(* The pino backend is a black box: the model records what it is handed   *)
(* (factory options, child bindings, level writes, log calls) and keeps    *)
(* the level of every handle.                                              *)
(***************************************************************************)
EXTENDS Integers, Sequences, FiniteSets, TLC

\* ------------------------------------------------------------------ bounds
MaxNodes == 3       \* Logger objects (roots and children) a behaviour builds
MaxTreeNodes == 4   \* the same, for a behaviour of SpecTree
MaxStepNodes == 4   \* the same, for a behaviour of SpecSteps

\* --------------------------------------------------------- JavaScript values
Undefined == "<undefined>"

\* A JavaScript string whose characters matter is a sequence of characters.
Production == <<"p","r","o","d","u","c","t","i","o","n">>
PaddedProd == <<" ","P","r","o","d","U","C","T","i","o","n","\n">>
Develop    == <<"d","e","v">>

\* An environment variable: unset, or set to a string
EnvUnset    == [defined |-> FALSE, value |-> <<>>]
EnvSet(str) == [defined |-> TRUE, value |-> str]
NodeEnvValues == {EnvUnset, EnvSet(PaddedProd)}

\* More values of NODE_ENV, for the specification of the configuration
Prod          == <<"p","r","o","d">>
Blank         == <<" ">>
WideEnvValues ==
  {EnvUnset, EnvSet(<<>>), EnvSet(Blank), EnvSet(Production),
   EnvSet(PaddedProd), EnvSet(Develop), EnvSet(Prod)}

Whitespace == {" ", "\n", "\t"}

\* String.prototype.toLowerCase, character by character
LowerChar(c) ==
  CASE c = "P" -> "p" [] c = "R" -> "r" [] c = "O" -> "o" [] c = "D" -> "d"
    [] c = "U" -> "u" [] c = "C" -> "c" [] c = "T" -> "t" [] c = "I" -> "i"
    [] c = "N" -> "n" [] c = "E" -> "e" [] c = "V" -> "v" [] OTHER -> c

toLowerCase(s) == [i \in 1..Len(s) |-> LowerChar(s[i])]

\* String.prototype.trim: drops the white space at both ends
RECURSIVE TrimStart(_)
TrimStart(s) ==
  IF s # <<>> /\ Head(s) \in Whitespace THEN TrimStart(Tail(s)) ELSE s

RECURSIVE TrimEnd(_)
TrimEnd(s) ==
  IF s # <<>> /\ s[Len(s)] \in Whitespace
    THEN TrimEnd(SubSeq(s, 1, Len(s) - 1)) ELSE s

trim(s) == TrimEnd(TrimStart(s))

\* Mutant of NormalizedEnv: the value is lower-cased and not trimmed
NormalizedEnvNoTrim(envRaw) ==
  toLowerCase(IF envRaw.defined THEN envRaw.value ELSE <<>>)

\* (process.env.NODE_ENV || '').trim().toLowerCase()
NormalizedEnv(envRaw) ==
  toLowerCase(trim(IF envRaw.defined THEN envRaw.value ELSE <<>>))

\* ------------------------------------------------------------------ LogLevel
LogLevel == {"fatal", "error", "warn", "info", "debug"}

\* ------------------------------------------------------------ service names
DEFAULT_SERVICE_NAME(v) ==
  IF v = "keyed" THEN "@juntu/logger" ELSE "@yyberi/logger"

\* Names every plain object inherits from Object.prototype (a sample)
ObjectPrototypeKeys == {"constructor", "toString"}

\* The serviceName arguments the callers pass
ServiceArgs(v) ==
  {Undefined, "", "foo", "constructor", DEFAULT_SERVICE_NAME(v)}

\* JavaScript truthiness of such an argument
Falsy(x) == x = Undefined \/ x = ""

\* ------------------------------------------------------------------ values
\* What getInstance can return: a Logger object, or whatever else the lookup
\* in the registry object yields.
LoggerRef(n)   == [kind |-> "Logger", id |-> n, key |-> ""]
ProtoRef(k)    == [kind |-> "inherited", id |-> 0, key |-> k]
NoValue        == [kind |-> "none", id |-> 0, key |-> ""]

VARIABLES
  variant,     \* which build of the class is loaded
  NODE_ENV,    \* process.env.NODE_ENV
  LOG_DIR,     \* process.env.LOG_DIR, as it is when the module is loaded
  nodeCap,     \* how many Logger objects a run constructs at most
  stack,       \* the setLogLevel activations in progress, innermost last:
               \* empty between two facade calls
  instances,   \* keyed: own properties of Logger.instances (key -> node)
  instance,    \* single: Logger.instance (node, or 0 when unset)
  logger,      \* node -> its pino handle           (this.logger)
  children,    \* node -> sequence of child nodes   (this.children)
  level,       \* handle -> current level           (pino's handle.level)
  opts,        \* handle -> what it was created from (for a root, with the
               \* NODE_ENV its constructor read: nodeEnv)
  call,        \* the last facade call
  ret,         \* what the last facade call returned
  backend,     \* the backend calls the last facade call made, in order
  first,       \* history: requested key -> what the first getInstance call
               \* that requested it returned
  lastSet      \* history: node -> the level of the latest setLogLevel call
               \* made, since the node exists, on it or on a node above it;
               \* the level it was constructed with when there was none

vars == <<variant, NODE_ENV, LOG_DIR, nodeCap, stack, instances, instance,
          logger, children, level,
          opts, call, ret, backend, first, lastSet>>

Nodes   == 1..Len(logger)
Handles == 1..Len(level)


\* ------------------------------------------------------------------ paths
\* A path is the sequence of its segments; an absolute path starts with "/".
\* The process runs in the package's directory, the module is in its dist/
Cwd       == <<"/", "app">>              \* process.cwd()
ModuleDir == <<"/", "app", "dist">>      \* __dirname

\* The values of LOG_DIR: unset, or a directory
LogDirValues == {EnvUnset, EnvSet(<<"/", "my", "logs">>)}

\* path.join: the segments put together, "." and "" dropped, ".." resolved
RECURSIVE Resolve(_, _)
Resolve(done, rest) ==
  IF rest = <<>> THEN done
  ELSE LET seg == Head(rest) IN
       IF seg = "." \/ seg = "" THEN Resolve(done, Tail(rest))
       ELSE IF seg = ".." /\ done # <<>> /\ done[Len(done)] \notin {"/", ".."}
         THEN Resolve(SubSeq(done, 1, Len(done) - 1), Tail(rest))
       ELSE IF seg = ".." /\ done = <<"/">> THEN Resolve(done, Tail(rest))
       ELSE Resolve(Append(done, seg), Tail(rest))

PathJoin(a, b) == Resolve(<<>>, a \o b)

\* keyed: const logDir = process.env.LOG_DIR ?? path.join(process.cwd(), 'logs')
logDir == IF LOG_DIR.defined THEN LOG_DIR.value ELSE PathJoin(Cwd, <<"logs">>)

\* keyed: const logFile = path.join(logDir, 'app.log')
logFile == PathJoin(logDir, <<"app.log">>)

\* single: path.join(__dirname, '../logs/app.log')
DirnameLogFile == PathJoin(ModuleDir, <<"..", "logs", "app.log">>)

Destination(v) == IF v = "keyed" THEN logFile ELSE DirnameLogFile

\* ------------------------------------------------------ the pino backend
npm_package_version == "9.8.7"      \* process.env.npm_package_version

\* The options the constructor hands to pinoFactory for a root logger.
\* param is the constructor's argument: a string, or Undefined.
RootServiceName(v, param) ==
  IF param # Undefined THEN param ELSE DEFAULT_SERVICE_NAME(v)

IsProduction(envRaw) == NormalizedEnv(envRaw) = Production

RootOptions(v, param, envRaw) ==
  IF IsProduction(envRaw)
    THEN [transport  |-> [target |-> "pino/file", level |-> "info",
                          destination |-> Destination(v),
                          mkdir |-> TRUE, sync |-> FALSE],
          level      |-> "info",
          messageKey |-> "message",
          base       |-> [env |-> envRaw, version |-> npm_package_version,
                          service |-> RootServiceName(v, param)]]
    ELSE [base  |-> [service |-> RootServiceName(v, param)],
          level |-> "debug"]

RootStream(envRaw) == IF IsProduction(envRaw) THEN Undefined ELSE "prettyStream"

\* Mutant of ConstructorEnv: the variable is read once, for the first root,
\* and that value serves every later root
FirstRootEnv == IF opts = <<>> THEN NODE_ENV ELSE opts[1].nodeEnv

\* process.env.NODE_ENV as the constructor reads it, each time it runs
ConstructorEnv == NODE_ENV

\* new Logger(param) on the root path: one pinoFactory call, one new node.
\* The new node and the new handle get the next free numbers.
ConstructRoot(v, param) ==
  LET h   == Len(level) + 1
      cfg == RootOptions(v, param, ConstructorEnv)
      str == RootStream(ConstructorEnv)
  IN  /\ level'    = Append(level, cfg.level)
      /\ opts'     = Append(opts, [kind |-> "root", options |-> cfg,
                                   stream |-> str, nodeEnv |-> NODE_ENV])
      /\ logger'   = Append(logger, h)
      /\ children' = Append(children, <<>>)
      /\ lastSet'  = Append(lastSet, cfg.level)
      /\ backend'  = <<[fn |-> "pino", options |-> cfg, stream |-> str,
                        handle |-> h]>>

\* ------------------------------------------------------------- the registry
\* The key a getInstance(serviceName) call asks for: the name, or the default
\* key when the name is omitted or falsy.  Used by the history variable only.
RequestedKey(v, serviceName) ==
  IF serviceName = Undefined \/ serviceName = ""
    THEN DEFAULT_SERVICE_NAME(v) ELSE serviceName

Remember(hist, key, value) ==
  IF key \in DOMAIN hist THEN hist
  ELSE [k \in DOMAIN hist \cup {key} |-> IF k = key THEN value ELSE hist[k]]

\* Mutant of RegistryKey: `??` in place of `||`, so "" is kept as a key
RegistryKeyNullish(v, serviceName) ==
  IF serviceName = Undefined THEN DEFAULT_SERVICE_NAME(v) ELSE serviceName

\* keyed: const name = serviceName || DEFAULT_SERVICE_NAME
RegistryKey(v, serviceName) ==
  IF Falsy(serviceName) THEN DEFAULT_SERVICE_NAME(v) ELSE serviceName

\* keyed: Logger.instances[name], a property read on a plain object: an own
\* property, else the property inherited from Object.prototype, else undefined
InstancesGet(reg, name) ==
  IF name \in DOMAIN reg THEN LoggerRef(reg[name])
  ELSE IF name \in ObjectPrototypeKeys THEN ProtoRef(name)
  ELSE NoValue

\* Mutant of Missing: the cache test never finds the entry
MissingAlways(value) == TRUE

\* !Logger.instances[name]: functions and objects are truthy
Missing(value) == value.kind = "none"

\* Mutant of getInstanceKeyed: a call that finds its root cached puts the
\* root back at the level it was configured with
getInstanceKeyedReset(serviceName) ==
  LET name == RegistryKey(variant, serviceName) IN
  /\ variant = "keyed"
  /\ call' = [op |-> "getInstance", serviceName |-> serviceName]
  /\ IF Missing(InstancesGet(instances, name))
       THEN /\ Len(logger) < nodeCap
            /\ ConstructRoot(variant, name)
            /\ instances' = [k \in DOMAIN instances \cup {name} |->
                               IF k = name THEN Len(logger) + 1
                               ELSE instances[k]]
       ELSE /\ backend' = <<>>
            /\ level' = IF name \in DOMAIN instances
                          THEN [level EXCEPT ![logger[instances[name]]] =
                                  opts[logger[instances[name]]].options.level]
                          ELSE level
            /\ UNCHANGED <<instances, logger, children, opts, lastSet>>
  /\ ret' = InstancesGet(instances', name)
  /\ first' = Remember(first, RequestedKey(variant, serviceName), ret')
  /\ UNCHANGED <<variant, LOG_DIR, nodeCap, stack, NODE_ENV, instance>>

getInstanceKeyed(serviceName) ==
  LET name == RegistryKey(variant, serviceName) IN
  /\ variant = "keyed"
  /\ call' = [op |-> "getInstance", serviceName |-> serviceName]
  /\ IF Missing(InstancesGet(instances, name))
       THEN /\ Len(logger) < nodeCap
            /\ ConstructRoot(variant, name)
            /\ instances' = [k \in DOMAIN instances \cup {name} |->
                               IF k = name THEN Len(logger) + 1
                               ELSE instances[k]]
       ELSE /\ backend' = <<>>
            /\ UNCHANGED <<instances, logger, children, level, opts,
                           lastSet>>
  /\ ret' = InstancesGet(instances', name)
  /\ first' = Remember(first, RequestedKey(variant, serviceName), ret')
  /\ UNCHANGED <<variant, LOG_DIR, nodeCap, stack, NODE_ENV, instance>>

\* single: !Logger.instance
Unset(inst) == inst = 0

getInstanceSingle(serviceName) ==
  /\ variant = "single"
  /\ call' = [op |-> "getInstance", serviceName |-> serviceName]
  /\ IF Unset(instance)
       THEN /\ Len(logger) < nodeCap
            /\ ConstructRoot(variant, serviceName)
            /\ instance' = Len(logger) + 1
       ELSE /\ backend' = <<>>
            /\ UNCHANGED <<instance, logger, children, level, opts,
                           lastSet>>
  /\ ret' = LoggerRef(instance')
  /\ first' = Remember(first, RequestedKey(variant, serviceName), ret')
  /\ UNCHANGED <<variant, LOG_DIR, nodeCap, stack, NODE_ENV, instances>>


\* ------------------------------------------------------------ Logger.child
\* A bindings object is a function from its keys to their values.
Get(obj, k) == IF k \in DOMAIN obj THEN obj[k] ELSE Undefined

\* Mutant of childBindings: name is passed through beside module
childBindingsKeepName(bindings) ==
  [k \in DOMAIN bindings \cup {"module"} |->
     IF k = "module" THEN Get(bindings, "name") ELSE bindings[k]]

\* const moduleName = bindings.name;
\* const { name, ...rest } = bindings;
\* const childBindings = { ...rest, module: moduleName };
childBindings(bindings) ==
  LET moduleName == Get(bindings, "name")
      rest       == [k \in DOMAIN bindings \ {"name"} |-> bindings[k]]
  IN  [k \in DOMAIN rest \cup {"module"} |->
         IF k = "module" THEN moduleName ELSE rest[k]]

\* The bindings objects the callers pass
BindingsArgs ==
  { ("name" :> "modA") @@ ("foo" :> "bar"),
    ("foo" :> "bar"),
    ("name" :> "modA") @@ ("module" :> "old"),
    ("module" :> "old") }

\* Mutant of push: the element is added twice
pushTwice(list, x) == list \o <<x, x>>

\* Mutant of push: Array.prototype.unshift, the element is put in front
unshift(list, x) == <<x>> \o list

\* Array.prototype.push
push(list, x) == Append(list, x)

\* this.logger.child(childBindings): pino derives a handle that starts at the
\* level its parent has at that moment.  new Logger(childLogger) wraps it.
child(self, bindings) ==
  LET h == Len(level) + 1
      n == Len(logger) + 1
      b == childBindings(bindings)
  IN  /\ self \in Nodes
      /\ Len(logger) < nodeCap
      /\ call'     = [op |-> "child", self |-> self, bindings |-> bindings]
      /\ backend'  = <<[fn |-> "child", handle |-> logger[self],
                        bindings |-> b, result |-> h]>>
      /\ level'    = Append(level, level[logger[self]])
      /\ lastSet'  = Append(lastSet, level[logger[self]])
      /\ opts'     = Append(opts, [kind |-> "child", parent |-> logger[self]])
      /\ logger'   = Append(logger, h)
      /\ children' = Append([children EXCEPT ![self] = push(@, n)], <<>>)
      /\ ret'      = LoggerRef(n)
      /\ UNCHANGED <<variant, LOG_DIR, nodeCap, stack, NODE_ENV, instances,
                     instance, first>>

\* ------------------------------------------------- the tree, as a relation
\* c is an element of p's children list
IsChildOf(c, p) == \E i \in 1..Len(children[p]) : children[p][i] = c

\* n and every node below it
RECURSIVE Closure(_)
Closure(S) ==
  LET T == S \cup {c \in Nodes : \E p \in S : IsChildOf(c, p)}
  IN  IF T = S THEN S ELSE Closure(T)

Subtree(n) == Closure({n})

\* ------------------------------------------------------ Logger.setLogLevel
\* Mutant of VisitEach: the children are visited, their own children are not
RECURSIVE VisitEachShallow(_, _)
VisitEachShallow(ch, list) ==
  IF list = <<>> THEN <<>>
  ELSE <<Head(list)>> \o VisitEachShallow(ch, Tail(list))

RECURSIVE Visit(_, _)
RECURSIVE VisitEach(_, _)

\* Mutant of Visit: the node's own level is assigned after its children's
VisitPostOrder(ch, n) == VisitEach(ch, ch[n]) \o <<n>>

\* The nodes one setLogLevel call visits, in the order it visits them:
\*   this.logger.level = level;
\*   this.children.forEach(child => child.setLogLevel(level));
Visit(ch, n) == <<n>> \o VisitEach(ch, ch[n])

VisitEach(ch, list) ==
  IF list = <<>> THEN <<>>
  ELSE Visit(ch, Head(list)) \o VisitEach(ch, Tail(list))

\* Mutant of ApplyWrites: only the first assignment takes effect
ApplyFirstWrite(lv, writes) ==
  IF writes = <<>> THEN lv
  ELSE [lv EXCEPT ![writes[1].handle] = writes[1].level]

\* The assignments `handle.level = lvl`, applied one after the other
RECURSIVE ApplyWrites(_, _)
ApplyWrites(lv, writes) ==
  IF writes = <<>> THEN lv
  ELSE ApplyWrites([lv EXCEPT ![Head(writes).handle] = Head(writes).level],
                   Tail(writes))

\* Mutant of LevelWrites: the level is written to every handle there is
LevelWritesAll(self, lvl) ==
  [i \in 1..Len(logger) |->
     [fn |-> "level=", handle |-> logger[i], level |-> lvl]]

LevelWrites(self, lvl) ==
  LET order == Visit(children, self)
  IN  [i \in 1..Len(order) |->
         [fn |-> "level=", handle |-> logger[order[i]], level |-> lvl]]

\* The levels the callers pass
LevelArgs == {"debug", "info"}

setLogLevel(self, lvl) ==
  /\ self \in Nodes
  /\ call'    = [op |-> "setLogLevel", self |-> self, level |-> lvl]
  /\ backend' = LevelWrites(self, lvl)
  /\ level'   = ApplyWrites(level, backend')
  /\ lastSet' = [m \in Nodes |-> IF m \in Subtree(self) THEN lvl
                                 ELSE lastSet[m]]
  /\ ret'     = NoValue
  /\ UNCHANGED <<variant, LOG_DIR, nodeCap, stack, NODE_ENV, instances,
                 instance, logger, children,
                 opts, first>>

\* ------------------------------------- Logger.setLogLevel, one step at a time
\* An activation of setLogLevel is [node, i]: i = 0 before the assignment
\* `this.logger.level = level`, and then i is the index of the element of
\* this.children that forEach hands to the callback next.
Frame(n, i) == [node |-> n, i |-> i]

Top == stack[Len(stack)]

\* Mutant of Pop: the activation is never left
PopNothing(stk) == stk

\* The innermost activation returns
Pop(stk) == SubSeq(stk, 1, Len(stk) - 1)

ReplaceTop(stk, f) == [stk EXCEPT ![Len(stk)] = f]

\* A caller invokes node.setLogLevel(lvl)
setLogLevelCall(self, lvl) ==
  /\ stack = <<>>
  /\ self \in Nodes
  /\ call'    = [op |-> "setLogLevel", self |-> self, level |-> lvl]
  /\ backend' = <<>>
  /\ ret'     = NoValue
  /\ stack'   = <<Frame(self, 0)>>
  /\ lastSet' = [m \in Nodes |-> IF m \in Subtree(self) THEN lvl
                                 ELSE lastSet[m]]
  /\ UNCHANGED <<variant, LOG_DIR, nodeCap, NODE_ENV, instances, instance,
                 logger, children, level, opts, first>>

\* this.logger.level = level;
AssignOwn ==
  /\ stack # <<>>
  /\ Top.i = 0
  /\ backend' = Append(backend, [fn |-> "level=",
                                 handle |-> logger[Top.node],
                                 level |-> call.level])
  /\ level'   = ApplyWrites(level, <<backend'[Len(backend')]>>)
  /\ stack'   = ReplaceTop(stack, Frame(Top.node, 1))
  /\ UNCHANGED <<variant, LOG_DIR, nodeCap, NODE_ENV, instances, instance,
                 logger, children, opts, call, ret, first, lastSet>>

\* this.children.forEach(child => child.setLogLevel(level)): the callback is
\* entered for the next element
ForEachNext ==
  /\ stack # <<>>
  /\ Top.i \in 1..Len(children[Top.node])
  /\ stack' = Append(ReplaceTop(stack, Frame(Top.node, Top.i + 1)),
                     Frame(children[Top.node][Top.i], 0))
  /\ UNCHANGED <<variant, LOG_DIR, nodeCap, NODE_ENV, instances, instance,
                 logger, children, level, opts, call, ret, backend, first,
                 lastSet>>

\* forEach is past the last element: the activation returns
Return ==
  /\ stack # <<>>
  /\ Top.i > Len(children[Top.node])
  /\ stack' = Pop(stack)
  /\ UNCHANGED <<variant, LOG_DIR, nodeCap, NODE_ENV, instances, instance,
                 logger, children, level, opts, call, ret, backend, first,
                 lastSet>>

\* ------------------------------------------ fatal, error, warn, info, debug
\* Mutant of Forward: the supplementary arguments are dropped
ForwardNoArgs(handle, method, msg, args) ==
  [fn |-> method, handle |-> handle, msg |-> msg, args |-> <<>>]

\* this.logger.<method>(msg, ...args): the call the handle receives
Forward(handle, method, msg, args) ==
  [fn |-> method, handle |-> handle, msg |-> msg, args |-> args]

\* One facade log call: it makes the given backend calls and changes nothing
LogCall(op, self, msg, args, calls) ==
  /\ self \in Nodes
  /\ call'    = [op |-> op, self |-> self, msg |-> msg, args |-> args]
  /\ backend' = calls
  /\ ret'     = NoValue
  /\ UNCHANGED <<variant, LOG_DIR, nodeCap, stack, NODE_ENV, instances,
                 instance, logger, children,
                 level, opts, first, lastSet>>

fatal(self, msg, args) ==
  LogCall("fatal", self, msg, args,
          <<Forward(logger[self], "fatal", msg, args)>>)
error(self, msg, args) ==
  LogCall("error", self, msg, args,
          <<Forward(logger[self], "error", msg, args)>>)
warn(self, msg, args) ==
  LogCall("warn", self, msg, args,
          <<Forward(logger[self], "warn", msg, args)>>)
info(self, msg, args) ==
  LogCall("info", self, msg, args,
          <<Forward(logger[self], "info", msg, args)>>)
debug(self, msg, args) ==
  LogCall("debug", self, msg, args,
          <<Forward(logger[self], "debug", msg, args)>>)

\* The messages and the supplementary arguments the callers pass
MsgArgs  == {"m1"}
ArgLists == {<<1, 2>>}

\* ------------------------------------------------------------ environment
\* The host sets or clears process.env.NODE_ENV between calls.
SetNodeEnv(e) ==
  /\ e # NODE_ENV
  /\ NODE_ENV' = e
  /\ UNCHANGED <<variant, LOG_DIR, nodeCap, stack, instances, instance,
                 logger, children, level, opts,
                 call, ret, backend, first, lastSet>>

\* ---------------------------------------------------------- specification
\* The module is loaded: no root, no node, no call yet
Registry0 ==
  /\ stack = <<>>
  /\ instances = <<>>
  /\ instance = 0
  /\ logger = <<>>
  /\ children = <<>>
  /\ level = <<>>
  /\ opts = <<>>
  /\ call = [op |-> "none"]
  /\ ret = NoValue
  /\ backend = <<>>
  /\ first = <<>>
  /\ lastSet = <<>>

\* Spec: the registry, the tree and the log calls, with LOG_DIR unset
Init ==
  /\ variant \in {"keyed", "single"}
  /\ NODE_ENV \in NodeEnvValues
  /\ LOG_DIR = EnvUnset
  /\ nodeCap = MaxNodes
  /\ Registry0

Next ==
  \/ \E s \in ServiceArgs(variant) : getInstanceKeyed(s)
  \/ \E s \in ServiceArgs(variant) : getInstanceSingle(s)
  \/ \E n \in Nodes, b \in BindingsArgs : child(n, b)
  \/ \E n \in Nodes, l \in LevelArgs : setLogLevel(n, l)
  \/ \E n \in Nodes, m \in MsgArgs, a \in ArgLists : fatal(n, m, a)
  \/ \E n \in Nodes, m \in MsgArgs, a \in ArgLists : error(n, m, a)
  \/ \E n \in Nodes, m \in MsgArgs, a \in ArgLists : warn(n, m, a)
  \/ \E n \in Nodes, m \in MsgArgs, a \in ArgLists : info(n, m, a)
  \/ \E n \in Nodes, m \in MsgArgs, a \in ArgLists : debug(n, m, a)
  \/ \E e \in NodeEnvValues : SetNodeEnv(e)

Spec == Init /\ [][Next]_vars

\* SpecConfig: the configuration of the roots, over more values of NODE_ENV
\* and LOG_DIR
InitConfig ==
  /\ variant \in {"keyed", "single"}
  /\ NODE_ENV \in WideEnvValues
  /\ LOG_DIR \in LogDirValues
  /\ nodeCap = MaxNodes
  /\ Registry0

NextConfig ==
  \/ \E s \in ServiceArgs(variant) : getInstanceKeyed(s)
  \/ \E s \in ServiceArgs(variant) : getInstanceSingle(s)
  \/ \E e \in WideEnvValues : SetNodeEnv(e)

SpecConfig == InitConfig /\ [][NextConfig]_vars

\* SpecTree: deeper trees, built by fewer kinds of call
TreeServiceArgs == {Undefined, "foo"}
TreeBindingsArgs == { ("name" :> "modA") @@ ("foo" :> "bar") }

InitTree ==
  /\ variant \in {"keyed", "single"}
  /\ NODE_ENV = EnvUnset
  /\ LOG_DIR = EnvUnset
  /\ nodeCap = MaxTreeNodes
  /\ Registry0

NextTree ==
  \/ \E s \in TreeServiceArgs : getInstanceKeyed(s)
  \/ \E s \in TreeServiceArgs : getInstanceSingle(s)
  \/ \E n \in Nodes, b \in TreeBindingsArgs : child(n, b)
  \/ \E n \in Nodes, l \in LevelArgs : setLogLevel(n, l)

SpecTree == InitTree /\ [][NextTree]_vars

\* SpecSteps: setLogLevel runs one statement at a time.  The calls are
\* synchronous and the program has one thread, so that no other call starts
\* while one is running, and a call that can take a step takes it.
InitSteps ==
  /\ variant \in {"keyed", "single"}
  /\ NODE_ENV = EnvUnset
  /\ LOG_DIR = EnvUnset
  /\ nodeCap = MaxStepNodes
  /\ Registry0

Running == AssignOwn \/ ForEachNext \/ Return

NextSteps ==
  \/ stack = <<>> /\ \E s \in TreeServiceArgs : getInstanceKeyed(s)
  \/ stack = <<>> /\ \E s \in TreeServiceArgs : getInstanceSingle(s)
  \/ stack = <<>> /\ \E n \in Nodes, b \in TreeBindingsArgs : child(n, b)
  \/ \E n \in Nodes, l \in LevelArgs : setLogLevelCall(n, l)
  \/ AssignOwn
  \/ ForEachNext
  \/ Return

SpecSteps == InitSteps /\ [][NextSteps]_vars /\ WF_vars(Running)


\* ================================================================= claims
IsGetInstance == call.op = "getInstance"

\* The root handles the factory has made: one per pinoFactory call
RootHandles == {h \in Handles : opts[h].kind = "root"}

\* The names a caller can pass that are not falsy
GivenName(s) == s # Undefined /\ s # ""

\* C1: a getInstance(s) call with a non-empty name s returns the very value
\* the first call that asked for s returned, whatever getInstance, child,
\* setLogLevel and log calls came in between.
C1_SameInstancePerName ==
  (IsGetInstance /\ GivenName(call.serviceName))
    => /\ call.serviceName \in DOMAIN first
       /\ ret = first[call.serviceName]

\* C1 witness: a repeated getInstance("foo") that constructed nothing, after
\* other nodes were built and a level was changed.
C1_Witness ==
  /\ IsGetInstance
  /\ call.serviceName = "foo"
  /\ backend = <<>>
  /\ ret.kind = "Logger"
  /\ Len(logger) >= 3
  /\ \E h \in Handles : level[h] # level[logger[ret.id]]

\* C2: two different requested names never share a root node.
C2_DistinctNamesDistinctRoots ==
  \A k1 \in DOMAIN first : \A k2 \in DOMAIN first :
    k1 # k2 => first[k1] # first[k2]

\* C3: the value getInstance(s) returns is a root node whose handle was made
\* with base.service = s, or = the default key when s is omitted or falsy.
C3_ServiceIsRequestedName ==
  IsGetInstance =>
    /\ ret.kind = "Logger"
    /\ opts[logger[ret.id]].kind = "root"
    /\ opts[logger[ret.id]].options.base.service
         = RequestedKey(variant, call.serviceName)

\* C4: getInstance(), getInstance(undefined), getInstance("") and
\* getInstance(<default key>) all return one and the same root node.
C4_FalsyIsDefaultKey ==
  (IsGetInstance /\ call.serviceName
                      \in {Undefined, "", DEFAULT_SERVICE_NAME(variant)})
    => /\ DEFAULT_SERVICE_NAME(variant) \in DOMAIN first
       /\ ret.kind = "Logger"
       /\ ret = first[DEFAULT_SERVICE_NAME(variant)]

\* C4 witness: getInstance("") answered from the cache with the root that an
\* earlier call made for the default key, a root for another name existing.
C4_Witness ==
  /\ IsGetInstance
  /\ call.serviceName = ""
  /\ backend = <<>>
  /\ variant = "keyed"
  /\ DOMAIN instances = {"foo", DEFAULT_SERVICE_NAME(variant)}
  /\ ret = LoggerRef(instances[DEFAULT_SERVICE_NAME(variant)])

\* C5: the factory has been called exactly once per distinct key requested.
C5_OneConstructionPerKey ==
  Cardinality(RootHandles) = Cardinality(DOMAIN first)

\* C6: getInstance never returns anything but a Logger node.
C6_AlwaysALogger ==
  IsGetInstance => ret.kind = "Logger"


\* ------------------------------------------------------ claims on the tree
IsDerived(n) == opts[logger[n]].kind = "child"

IsSetLogLevel == call.op = "setLogLevel"

\* C7: right after setLogLevel(L) on n, n and every descendant of n are at L.
C7_SubtreeAtLevel ==
  IsSetLogLevel =>
    \A m \in Subtree(call.self) : level[logger[m]] = call.level

\* C7 witness: the call was made on a node that has a grandchild.
C7_Witness ==
  /\ IsSetLogLevel
  /\ \E c \in Nodes : \E g \in Nodes :
       IsChildOf(c, call.self) /\ IsChildOf(g, c)

\* C8: a setLogLevel call on n changes the level of no handle outside n's
\* subtree.
C8_OutsideUnchanged ==
  [][ (IsSetLogLevel' /\ call'.self \in Nodes) =>
        \A m \in Nodes \ Subtree(call'.self) :
          level'[logger[m]] = level[logger[m]] ]_vars

\* C8 witness: the call was made on a derived node whose parent, whose
\* sibling and a node of which it is no descendant keep another level.
C8_Witness ==
  /\ IsSetLogLevel
  /\ IsDerived(call.self)
  /\ \E p \in Nodes : \E sib \in Nodes :
       /\ IsChildOf(call.self, p)
       /\ IsChildOf(sib, p)
       /\ sib # call.self
       /\ level[logger[p]] # call.level
       /\ level[logger[sib]] # call.level

\* C9: child(b) hands the backend b without the key name, plus module =
\* b.name (undefined when b has no name), whatever module b carried.
C9_ChildBindings ==
  call.op = "child" =>
    /\ Len(backend) = 1
    /\ backend[1].fn = "child"
    /\ backend[1].handle = logger[call.self]
    /\ LET b   == call.bindings
           got == backend[1].bindings
       IN  /\ DOMAIN got = (DOMAIN b \ {"name"}) \cup {"module"}
           /\ \A k \in DOMAIN b \ {"name", "module"} : got[k] = b[k]
           /\ got["module"] = IF "name" \in DOMAIN b THEN b["name"]
                              ELSE Undefined

\* C9 witness: bindings that carry a module key and no name.
C9_Witness ==
  /\ call.op = "child"
  /\ "module" \in DOMAIN call.bindings
  /\ "name" \notin DOMAIN call.bindings
  /\ backend[1].bindings["module"] = Undefined

\* C10: a facade log call makes exactly one backend call: the method of the
\* same name, on the node's own handle, with the same message and arguments.
C10_ForwardedVerbatim ==
  call.op \in LogLevel =>
    backend = <<[fn     |-> call.op,
                 handle |-> logger[call.self],
                 msg    |-> call.msg,
                 args   |-> call.args]>>

\* C10 witness: a log call with two arguments on a derived node.
C10_Witness ==
  /\ call.op \in LogLevel
  /\ IsDerived(call.self)
  /\ Len(call.args) = 2
  /\ backend[1].handle # 1


\* -------------------------------------------------- the roots' configuration
\* The values of NODE_ENV above that read 'production' once trimmed and
\* lower-cased, listed by hand
ProductionIndicators == {EnvSet(Production), EnvSet(PaddedProd)}

\* What the factory is handed in production: a file target, level info, the
\* base fields env, version and service, no stream
IsProductionConfig(options, stream) ==
  /\ DOMAIN options = {"transport", "level", "messageKey", "base"}
  /\ options.transport.target = "pino/file"
  /\ options.level = "info"
  /\ DOMAIN options.base = {"env", "version", "service"}
  /\ stream = Undefined

\* What the factory is handed in development: the pretty stream, level debug,
\* the base field service only
IsDevelopmentConfig(options, stream) ==
  /\ DOMAIN options = {"base", "level"}
  /\ options.level = "debug"
  /\ DOMAIN options.base = {"service"}
  /\ stream = "prettyStream"

ConstructedRoot == IsGetInstance /\ backend # <<>>

\* C11: a root is constructed with the production configuration exactly when
\* NODE_ENV, trimmed and lower-cased, is 'production'; with the development
\* configuration for every other value, unset included.
C11_ConfigByEnvironment ==
  ConstructedRoot =>
    LET f == backend[1]
    IN  /\ f.fn = "pino"
        /\ IF opts[f.handle].nodeEnv \in ProductionIndicators
             THEN /\ IsProductionConfig(f.options, f.stream)
                  /\ level[f.handle] = "info"
             ELSE /\ IsDevelopmentConfig(f.options, f.stream)
                  /\ level[f.handle] = "debug"

\* C11 witness: a root constructed while NODE_ENV was " ProdUCTion\n".
C11_Witness ==
  /\ ConstructedRoot
  /\ opts[backend[1].handle].nodeEnv = EnvSet(PaddedProd)
  /\ IsProductionConfig(backend[1].options, backend[1].stream)


\* The directory the production log file is expected in
ExpectedLogDir ==
  IF LOG_DIR.defined THEN LOG_DIR.value ELSE <<"/", "app", "logs">>

\* C12: the file target of a production root is app.log in the directory
\* LOG_DIR names, and in <working directory>/logs when LOG_DIR is absent.
C12_DestinationInLogDir ==
  \A h \in RootHandles :
    "transport" \in DOMAIN opts[h].options =>
      opts[h].options.transport.destination
        = ExpectedLogDir \o <<"app.log">>


\* C13: in every reachable state the threshold of a node is the level of the
\* latest setLogLevel call made, since the node exists, on it or on a node
\* above it, and its threshold at construction when there was none; child()
\* itself writes no level.
C13_LatestCallWins ==
  /\ \A n \in Nodes : level[logger[n]] = lastSet[n]
  /\ call.op = "child" =>
       \A i \in 1..Len(backend) : backend[i].fn # "level="

\* C13 witness: a root constructed at debug was set to info, and its child
\* was set back to debug afterwards.
C13_Witness ==
  /\ IsSetLogLevel
  /\ IsDerived(call.self)
  /\ call.level = "debug"
  /\ \E p \in Nodes :
       /\ IsChildOf(call.self, p)
       /\ opts[logger[p]].kind = "root"
       /\ opts[logger[p]].options.level = "debug"
       /\ level[logger[p]] = "info"
       /\ level[logger[call.self]] = "debug"


\* ------------------------------------------------- the order of the cascade
\* The place of node n's assignment among the backend calls of the last call
Assigned(n) ==
  \E i \in 1..Len(backend) :
    backend[i].fn = "level=" /\ backend[i].handle = logger[n]

Pos(n) ==
  CHOOSE i \in 1..Len(backend) :
    backend[i].fn = "level=" /\ backend[i].handle = logger[n]

\* C14: the assignments of one setLogLevel call are in depth-first pre-order:
\* a node before every node below it, and, for two children of one node, all
\* of the earlier-added child's subtree before any of the later-added one's.
C14_PreOrder ==
  IsSetLogLevel =>
    /\ \A n \in Subtree(call.self) : Assigned(n)
    /\ \A n \in Subtree(call.self) :
         \A d \in Subtree(n) \ {n} : Pos(n) < Pos(d)
    /\ \A p \in Subtree(call.self) :
         \A i, j \in 1..Len(children[p]) :
           i < j =>
             \A a \in Subtree(children[p][i]) :
               \A b \in Subtree(children[p][j]) : Pos(a) < Pos(b)

\* C14 witness: setLogLevel on a node with two children, the first of which
\* has a child of its own that was derived after the second one
C14_Witness ==
  /\ IsSetLogLevel
  /\ Len(children[call.self]) = 2
  /\ \E g \in Nodes :
       /\ IsChildOf(g, children[call.self][1])
       /\ g > children[call.self][2]
  /\ Len(backend) = 4


\* ------------------------------------------------------------- the forest
\* Where node n occurs in the children lists
Occurrences(n) ==
  {pi \in Nodes \X (1..Len(logger)) :
     pi[2] <= Len(children[pi[1]]) /\ children[pi[1]][pi[2]] = n}

\* The nodes below n
Descendants(n) == Closure({c \in Nodes : IsChildOf(c, n)})

\* C15: the nodes form a forest: a derived node is in exactly one children
\* list, exactly once; a root is in none; no node is below itself.
C15_Forest ==
  /\ \A p \in Nodes : \A i \in 1..Len(children[p]) : children[p][i] \in Nodes
  /\ \A n \in Nodes :
       /\ IsDerived(n) => Cardinality(Occurrences(n)) = 1
       /\ ~IsDerived(n) => Occurrences(n) = {}
       /\ n \notin Descendants(n)

\* C15 witness: two roots, and under one of them a child that has a child
C15_Witness ==
  /\ Cardinality({n \in Nodes : ~IsDerived(n)}) = 2
  /\ \E c, g \in Nodes : IsDerived(c) /\ IsDerived(g) /\ IsChildOf(g, c)

\* A step that is a child() call: the call recorded is child and a Logger
\* object was constructed
ChildStep == call'.op = "child" /\ Len(logger') = Len(logger) + 1

\* C16: a child() call constructs a node that did not exist, appends it as
\* the last element of the caller's children list and leaves every other
\* list as it was; every other call leaves every children list as it was.
C16_AppendOnly ==
  [][ IF ChildStep
        THEN LET n == Len(logger') IN
             /\ n \notin Nodes
             /\ \A p \in Nodes : ~IsChildOf(n, p)
             /\ ret' = LoggerRef(n)
             /\ children'[call'.self] = Append(children[call'.self], n)
             /\ children'[n] = <<>>
             /\ \A p \in Nodes \ {call'.self} : children'[p] = children[p]
        ELSE \A p \in Nodes : children'[p] = children[p] ]_vars

\* C16 witness: a second child() call on one node, which so has two children,
\* the newest last
C16_Witness ==
  /\ call.op = "child"
  /\ Len(children[call.self]) = 2
  /\ children[call.self][2] = Len(logger)
  /\ children[call.self][1] < Len(logger)


\* ------------------------------------------------------ who writes a level
\* A step that is a setLogLevel call
SetLogLevelStep == call'.op = "setLogLevel" /\ NODE_ENV' = NODE_ENV

\* C17: only setLogLevel changes the level of a handle that exists: a step of
\* getInstance (cached or not), of child or of a log call leaves each at the
\* level it had.
C17_OnlySetLogLevelWrites ==
  [][ ~SetLogLevelStep => \A h \in Handles : level'[h] = level[h] ]_vars

\* C17 witness: getInstance returned a cached root that is still at a level
\* other than the one it was configured with
C17_Witness ==
  /\ IsGetInstance
  /\ backend = <<>>
  /\ ret.kind = "Logger"
  /\ level[logger[ret.id]] # opts[logger[ret.id]].options.level


\* --------------------------------------------- when the environment is read
\* A step that constructs no root: the host changes NODE_ENV, or getInstance
\* finds what it looks for
NoConstruction ==
  \/ NODE_ENV' # NODE_ENV
  \/ call'.op = "getInstance" /\ backend' = <<>>

\* C18: NODE_ENV is read when a root is constructed and at no other time:
\* each root has the configuration and the initial level of the value
\* NODE_ENV had when it was constructed, and neither a change of NODE_ENV nor
\* a getInstance call that finds its root cached changes the configuration or
\* the level of any handle.
C18_EnvReadAtConstructionOnly ==
  /\ [](\A h \in RootHandles :
          IF opts[h].nodeEnv \in ProductionIndicators
            THEN IsProductionConfig(opts[h].options, opts[h].stream)
            ELSE IsDevelopmentConfig(opts[h].options, opts[h].stream))
  /\ [][ NoConstruction =>
           \A h \in Handles : opts'[h] = opts[h] /\ level'[h] = level[h] ]_vars

\* C18 witness: two roots of different keys, one configured for production
\* and one for development, and a getInstance call that returns a cached root
\* whose configuration is not that of the present NODE_ENV
C18_Witness ==
  /\ \E g, h \in RootHandles :
       /\ IsProductionConfig(opts[g].options, opts[g].stream)
       /\ IsDevelopmentConfig(opts[h].options, opts[h].stream)
  /\ IsGetInstance
  /\ backend = <<>>
  /\ ret.kind = "Logger"
  /\ opts[logger[ret.id]].nodeEnv # NODE_ENV


\* ------------------------------------------------------------ termination
\* How many times the last call assigned the level of node n
Assignments(n) ==
  Cardinality({i \in 1..Len(backend) :
                 backend[i].fn = "level=" /\ backend[i].handle = logger[n]})

\* The last setLogLevel call has returned
Returned == IsSetLogLevel /\ stack = <<>>

\* C19: every setLogLevel call returns, and when it has returned it has
\* assigned the level of its node and of each node below it exactly once and
\* of no other node; while it runs no level is assigned twice.
C19_TerminatesOncePerNode ==
  /\ (stack # <<>>) ~> (stack = <<>>)
  /\ [](IsSetLogLevel => \A n \in Nodes : Assignments(n) <= 1)
  /\ [](Returned =>
          /\ \A n \in Subtree(call.self) : Assignments(n) = 1
          /\ Len(backend) = Cardinality(Subtree(call.self)))

\* C19 witness: a setLogLevel call on a root above a child and a grandchild
\* has returned
C19_Witness ==
  /\ Returned
  /\ ~IsDerived(call.self)
  /\ Cardinality(Subtree(call.self)) = 3
  /\ \E c \in Nodes : IsChildOf(c, call.self) /\ children[c] # <<>>
  /\ Len(backend) = 3

====
